---- MODULE Spec2Model ----
(***************************************************************************)
(* Model of email-api (src/main.go): a gin HTTP API over a gorm store of   *)
(* Users and Products, and the cron job checkExpiryJob that mails each     *)
(* user the products that expire within three days.                        *)
(*                                                                         *)
(* Time is counted in whole hours since an arbitrary epoch.  time.Duration *)
(* is an int64 of nanoseconds and Hours() a float64; on whole hours far    *)
(* from the int64 range both are exact, so int(Hours()/24) is the integer  *)
(* quotient truncated towards zero.                                        *)
(***************************************************************************)
EXTENDS Integers, Sequences, FiniteSets, TLC

\* ---------------------------------------------------------------- bounds
MaxUsers == 2
MaxProducts == 2
MaxTicks == 1

\* ---------------------------------------------------- program constants
HoursPerDay == 24
ExpiryWindow == 3
StatusOK == 200
StatusBadRequest == 400
StatusNotFound == 404

\* ------------------------------------------------------------ input sets
Names == {"A"}
Emails == {"a@x.com", "b@x.com"}
ProductNames == {"Milk"}
\* expiry instants, in hours: an hour before the epoch, 3 days 23 h and 4 days
\* after it
Expiries == {-1, 95, 96}
\* the :id path parameter as the client writes it
ParamID == ("1" :> 1) @@ ("2" :> 2) @@ ("3" :> 3) @@ ("4" :> 4)
IdParams == {s \in DOMAIN ParamID : ParamID[s] <= MaxUsers + 1} \cup {"abc"}
\* cron starts each run of checkExpiryJob in a goroutine of its own; a run keeps
\* all it computes in locals, so the runs are modelled one after the other, in
\* one slot
Jobs == {"r1"}

\* users, products: the rows of the two tables, in primary-key order
\* clock:           the wall clock, in hours
\* resp:            the response to the last HTTP request
\* job:             per slot, the locals of the run of checkExpiryJob (pc, users,
\*                  now, the loop index i), the result of its read (loadErr),
\*                  what it has sent and logged so far, and three history
\*                  fields: the sizes of the tables when it loaded (nUsers,
\*                  nProducts) and the products listed before it began (owed)
\* qualified:       history: the products some run has listed so far
VARIABLES users, products, clock, resp, job, qualified

vars == <<users, products, clock, resp, job, qualified>>

\* ---------------------------------------------------------------- store
\* db.Create(&user): the row gets the next primary key (the insert is taken to
\* succeed; its result is not inspected by the handlers)
NewUser(name, email) == [ID |-> Len(users) + 1, Name |-> name, Email |-> email]

\* db.Create(&product)
NewProduct(name, expiry, uid) ==
    [ID |-> Len(products) + 1, Name |-> name, Expiry |-> expiry, UserID |-> uid]

\* db.First(&user, c.Param("id")) with a failing lookup that reports no user
FirstUserAlwaysFound(id, dbOK) ==
    [err |-> FALSE, ID |-> IF id \in DOMAIN ParamID THEN ParamID[id] ELSE 0]

\* db.First(&user, c.Param("id")): the user whose primary key the parameter
\* denotes; an error when there is none, when the parameter is no number
\* (it is then taken as a condition the store rejects) or when the store fails
FirstUser(id, dbOK) ==
    IF dbOK /\ id \in DOMAIN ParamID /\ ParamID[id] \in 1..Len(users)
    THEN [err |-> FALSE, ID |-> users[ParamID[id]].ID]
    ELSE [err |-> TRUE, ID |-> 0]

\* db.Where("user_id = ?", id).Find(&products): the rows whose user_id equals
\* the parameter; no row matches a parameter that is no number
FindProductsOf(id) ==
    SelectSeq(products, LAMBDA p : id \in DOMAIN ParamID /\ p.UserID = ParamID[id])

\* db.Preload("Products").Find(&users): every user with its products, in row order
Preload(us, ps) ==
    [k \in DOMAIN us |->
        [ID |-> us[k].ID, Name |-> us[k].Name, Email |-> us[k].Email,
         Products |-> SelectSeq(ps, LAMBDA p : p.UserID = us[k].ID)]]

\* what Find leaves in `users` when the read fails: the rows scanned before the
\* failure, none of them with its products (the preload did not run or failed)
FailedLoads(us) ==
    {[k \in 1..n |->
        [ID |-> us[k].ID, Name |-> us[k].Name, Email |-> us[k].Email,
         Products |-> <<>>]] : n \in 0..Len(us)}

\* ------------------------------------------------------- checkExpiryJob
\* integer quotient rounded towards minus infinity
DaysLeftFloored(expiry, now) == (expiry - now) \div HoursPerDay

\* int(p.Expiry.Sub(now).Hours() / 24): the conversion to int drops the fraction
DaysLeft(expiry, now) ==
    LET d == expiry - now
    IN  IF d >= 0 THEN d \div HoursPerDay ELSE -((-d) \div HoursPerDay)

\* a window that is open below three days only
QualifiesBelow(daysLeft) == daysLeft < ExpiryWindow

\* a window that leaves out the products already expired
QualifiesNotExpired(daysLeft) == daysLeft >= 0 /\ daysLeft <= ExpiryWindow

\* if daysLeft <= 3
Qualifies(daysLeft) == daysLeft <= ExpiryWindow

\* fmt.Sprintf("%s (... %d ...)", p.Name, daysLeft): the text of one product;
\* pid records which row the text was made from
Line(p, daysLeft) == [pid |-> p.ID, name |-> p.Name, daysLeft |-> daysLeft]

\* the inner loop with each text put in front of the earlier ones
RECURSIVE ExpiringPrepended(_, _)
ExpiringPrepended(ps, now) ==
    IF ps = <<>> THEN <<>>
    ELSE LET d == DaysLeft(Head(ps).Expiry, now)
         IN  IF Qualifies(d)
             THEN ExpiringPrepended(Tail(ps), now) \o <<Line(Head(ps), d)>>
             ELSE ExpiringPrepended(Tail(ps), now)

\* the inner loop: expiring = append(expiring, ...) for each qualifying product
RECURSIVE Expiring(_, _)
Expiring(ps, now) ==
    IF ps = <<>> THEN <<>>
    ELSE LET d == DaysLeft(Head(ps).Expiry, now)
         IN  IF Qualifies(d)
             THEN <<Line(Head(ps), d)>> \o Expiring(Tail(ps), now)
             ELSE Expiring(Tail(ps), now)

\* the products the inner loop ranges over, read again from the store
ProductsOfReloaded(u) == SelectSeq(products, LAMBDA p : p.UserID = u.ID)

\* range u.Products: the products loaded with the user
ProductsOf(u) == u.Products

\* a job that mails every user
ShouldSendAlways(expiring) == TRUE

\* if len(expiring) > 0
ShouldSend(expiring) == Len(expiring) > 0

\* sendEmailToUser builds one message: the recipient and a body of one line
\* per text, in order; forUser records the loop iteration that built it
Message(u, expiring) == [forUser |-> u.ID, to |-> u.Email, lines |-> expiring]

\* a sender that sends again after a failure
DeliveriesRetried(msg, ok) == IF ok THEN <<msg>> ELSE <<msg, msg>>

\* d.DialAndSend(m) is called once, whatever it returns
Deliveries(msg, ok) == <<msg>>

LogEntry(kind, email) == [kind |-> kind, email |-> email]

\* the log lines of one iteration that sends: the intent, then the outcome
SendLog(email, ok) ==
    <<LogEntry("prepare", email), LogEntry(IF ok THEN "sent" ELSE "sendError", email)>>

IdleJob ==
    [pc |-> "idle", loadErr |-> FALSE, users |-> <<>>, now |-> 0, i |-> 0,
     sent |-> <<>>, log |-> <<>>, nUsers |-> 0, nProducts |-> 0, owed |-> {}]

\* lines 160-163: the job logs its start and loads the users with their products;
\* the result of the read is not inspected
JobLoad(j) ==
    /\ job[j].pc \in {"idle", "done"}
    /\ \E dbOK \in BOOLEAN :
       \E loaded \in IF dbOK THEN {Preload(users, products)} ELSE FailedLoads(users) :
          job' = [job EXCEPT ![j] =
                    [IdleJob EXCEPT !.pc = "now", !.loadErr = ~dbOK, !.users = loaded,
                                    !.log = <<LogEntry("start", "")>>,
                                    !.nUsers = Len(users), !.nProducts = Len(products),
                                    !.owed = qualified]]
    /\ UNCHANGED <<users, products, clock, resp, qualified>>

\* line 165: now := time.Now()
JobNow(j) ==
    /\ job[j].pc = "now"
    /\ job' = [job EXCEPT ![j].pc = "loop", ![j].now = clock, ![j].i = 1]
    /\ UNCHANGED <<users, products, clock, resp, qualified>>

\* lines 166-180: one iteration of the loop over the loaded users
JobUser(j) ==
    /\ job[j].pc = "loop"
    /\ job[j].i <= Len(job[j].users)
    /\ LET u == job[j].users[job[j].i]
           expiring == Expiring(ProductsOf(u), job[j].now)
       IN  IF ShouldSend(expiring)
           THEN \E ok \in BOOLEAN :
                  /\ job' = [job EXCEPT
                       ![j].sent = @ \o Deliveries(Message(u, expiring), ok),
                       ![j].log = @ \o SendLog(u.Email, ok),
                       ![j].i = @ + 1]
                  /\ qualified' = qualified \cup {expiring[k].pid : k \in DOMAIN expiring}
           ELSE /\ job' = [job EXCEPT ![j].i = @ + 1]
                /\ UNCHANGED qualified
    /\ UNCHANGED <<users, products, clock, resp>>

\* line 181: the loop is over
JobReturn(j) ==
    /\ job[j].pc = "loop"
    /\ job[j].i > Len(job[j].users)
    /\ job' = [job EXCEPT ![j].pc = "done"]
    /\ UNCHANGED <<users, products, clock, resp, qualified>>

\* --------------------------------------------------------------- HTTP API
\* Each handler is an operator from the request and the store to the response
\* and the table it writes, and an action that applies it.  An input a handler
\* does not read on some path (the :id of a malformed request, the body of a
\* request for a missing user) is not enumerated on that path.
\* c.JSON(status, ...): the response as the client gets it
Response(route, status, error, body) ==
    [route |-> route, status |-> status, error |-> error, body |-> body]

\* POST /users: the response, and the users table after the request
CreateUser(wellFormed, name, email) ==
    IF ~wellFormed
    THEN [resp |-> Response("createUser", StatusBadRequest, "bind", <<>>),
          users |-> users]
    ELSE [resp |-> Response("createUser", StatusOK, "",
                            Preload(<<NewUser(name, email)>>, <<>>)),
          users |-> Append(users, NewUser(name, email))]

createUser ==
    \E wellFormed \in BOOLEAN :
    \E name \in IF wellFormed THEN Names ELSE {""} :
    \E email \in IF wellFormed THEN Emails ELSE {""} :
       LET r == CreateUser(wellFormed, name, email)
       IN  /\ Len(r.users) <= MaxUsers
           /\ users' = r.users
           /\ resp' = r.resp
           /\ UNCHANGED <<products, clock, job, qualified>>

\* GET /users: the users, their products not loaded
listUsers ==
    /\ resp' = Response("listUsers", StatusOK, "", Preload(users, <<>>))
    /\ UNCHANGED <<users, products, clock, job, qualified>>

\* POST /users/:id/products: the response, and the products table after the
\* request
AddProductToUser(wellFormed, id, dbOK, name, expiry) ==
    IF ~wellFormed
    THEN [resp |-> Response("addProductToUser", StatusBadRequest, "bind", <<>>),
          products |-> products]
    ELSE LET user == FirstUser(id, dbOK)
         IN  IF user.err
             THEN [resp |-> Response("addProductToUser", StatusNotFound,
                                     "user not found", <<>>),
                   products |-> products]
             ELSE [resp |-> Response("addProductToUser", StatusOK, "",
                                     <<NewProduct(name, expiry, user.ID)>>),
                   products |-> Append(products, NewProduct(name, expiry, user.ID))]

addProductToUser ==
    \E wellFormed \in BOOLEAN :
    \E dbOK \in IF wellFormed THEN BOOLEAN ELSE {TRUE} :
    \E id \in IF wellFormed /\ dbOK THEN IdParams ELSE {""} :
    \E name \in IF wellFormed /\ ~FirstUser(id, dbOK).err THEN ProductNames ELSE {""} :
    \E expiry \in IF wellFormed /\ ~FirstUser(id, dbOK).err THEN Expiries ELSE {0} :
       LET r == AddProductToUser(wellFormed, id, dbOK, name, expiry)
       IN  /\ Len(r.products) <= MaxProducts
           /\ products' = r.products
           /\ resp' = r.resp
           /\ UNCHANGED <<users, clock, job, qualified>>

\* GET /users/:id/products: the response
ListUserProducts(id, dbOK) ==
    IF ~dbOK
    THEN Response("listUserProducts", StatusNotFound,
                  "user not found or no products", <<>>)
    ELSE Response("listUserProducts", StatusOK, "", FindProductsOf(id))

listUserProducts ==
    \E dbOK \in BOOLEAN :
    \E id \in IF dbOK THEN IdParams ELSE {""} :
       /\ resp' = ListUserProducts(id, dbOK)
       /\ UNCHANGED <<users, products, clock, job, qualified>>

\* ------------------------------------------------------------------ time
\* the wall clock moves on by a day
Tick ==
    /\ clock < MaxTicks * HoursPerDay
    /\ clock' = clock + HoursPerDay
    /\ UNCHANGED <<users, products, resp, job, qualified>>

Init ==
    /\ users = <<>>
    /\ products = <<>>
    /\ clock = 0
    /\ resp = Response("", 0, "", <<>>)
    /\ job = [j \in Jobs |-> IdleJob]
    /\ qualified = {}

Next ==
    \/ createUser
    \/ listUsers
    \/ addProductToUser
    \/ listUserProducts
    \/ Tick
    \/ \E j \in Jobs : JobLoad(j)
    \/ \E j \in Jobs : JobNow(j)
    \/ \E j \in Jobs : JobUser(j)
    \/ \E j \in Jobs : JobReturn(j)

Spec == Init /\ [][Next]_vars

\* the HTTP API alone, with no run of the job
NextApi ==
    \/ createUser
    \/ listUsers
    \/ addProductToUser
    \/ listUserProducts

SpecApi == Init /\ [][NextApi]_vars

\* ================================================================ claims
\* the products of u that are within the window at `now`, in loaded order
QualifyingOf(u, now) ==
    SelectSeq(u.Products, LAMBDA p : DaysLeft(p.Expiry, now) <= ExpiryWindow)

\* the messages of run r that the iteration for user uid sent
MsgsFor(r, uid) == SelectSeq(r.sent, LAMBDA m : m.forUser = uid)

\* the text of product p, with its days left at `now`
TextOf(p, now) ==
    [pid |-> p.ID, name |-> p.Name, daysLeft |-> DaysLeft(p.Expiry, now)]

\* some message of run r has the text of product p
Listed(r, p) ==
    \E n \in DOMAIN r.sent : \E l \in DOMAIN r.sent[n].lines :
        r.sent[n].lines[l] = TextOf(p, r.now)

\* the number of messages of run r with a line made from product pid
TimesListed(r, pid) ==
    Cardinality({n \in DOMAIN r.sent :
                    \E l \in DOMAIN r.sent[n].lines : r.sent[n].lines[l].pid = pid})

\* the log lines of run r that report the outcome of a send
Outcomes(r) == SelectSeq(r.log, LAMBDA e : e.kind \in {"sent", "sendError"})

\* k is d / 24 with the fraction dropped
TruncatedQuotient(d, k) ==
    IF d >= 0
    THEN k >= 0 /\ HoursPerDay * k <= d /\ d < HoursPerDay * (k + 1)
    ELSE k <= 0 /\ HoursPerDay * (-k) <= -d /\ -d < HoursPerDay * (-k + 1)

\* the parameter denotes the primary key of a stored user
Resolves(id) ==
    id \in DOMAIN ParamID /\ \E k \in DOMAIN users : users[k].ID = ParamID[id]

\* C1: at the end of a run, a loaded product's text is in a notification of the
\* run if and only if its days_left against the run's `now` is <= 3
C1_NotifiedIffWithinWindow ==
    \A j \in Jobs :
        job[j].pc = "done" =>
            \A k \in DOMAIN job[j].users :
                \A n \in DOMAIN job[j].users[k].Products :
                    LET p == job[j].users[k].Products[n]
                    IN  Listed(job[j], p) <=>
                            DaysLeft(p.Expiry, job[j].now) <= ExpiryWindow

\* a finished run that loaded a product more than 3 days from expiry, which it
\* did not list, and an expired one, which it listed
C1_Witness ==
    \E j \in Jobs :
        /\ job[j].pc = "done"
        /\ \E k \in DOMAIN job[j].users :
           \E n, m \in DOMAIN job[j].users[k].Products :
              LET p == job[j].users[k].Products[n]
                  q == job[j].users[k].Products[m]
              IN  /\ DaysLeft(p.Expiry, job[j].now) > ExpiryWindow
                  /\ ~Listed(job[j], p)
                  /\ q.Expiry < job[j].now
                  /\ Listed(job[j], q)

\* C2: at the end of a run, a loaded user with N >= 1 qualifying products was
\* sent exactly one message, to the user's email, whose lines are the N
\* qualifying texts in loaded order
C2_OneMessageAllLinesInOrder ==
    \A j \in Jobs :
        job[j].pc = "done" =>
            \A k \in DOMAIN job[j].users :
                LET u == job[j].users[k]
                    q == QualifyingOf(u, job[j].now)
                    ms == MsgsFor(job[j], u.ID)
                IN  Len(q) >= 1 =>
                        /\ Len(ms) = 1
                        /\ ms[1].to = u.Email
                        /\ Len(ms[1].lines) = Len(q)
                        /\ \A n \in DOMAIN q :
                              ms[1].lines[n] = TextOf(q[n], job[j].now)

\* a finished run with a user who has two qualifying products with different
\* texts, listed in one message
C2_Witness ==
    \E j \in Jobs :
        /\ job[j].pc = "done"
        /\ \E k \in DOMAIN job[j].users :
              LET q == QualifyingOf(job[j].users[k], job[j].now)
              IN  /\ Len(q) = 2
                  /\ q[1].Expiry # q[2].Expiry
                  /\ Len(MsgsFor(job[j], job[j].users[k].ID)) = 1

\* C3: at the end of a run, a loaded user without qualifying products was sent
\* nothing, and the messages sent are as many as the loaded users with at least
\* one qualifying product
C3_NoMessageWithoutQualifying ==
    \A j \in Jobs :
        job[j].pc = "done" =>
            /\ \A k \in DOMAIN job[j].users :
                  Len(QualifyingOf(job[j].users[k], job[j].now)) = 0 =>
                      Len(MsgsFor(job[j], job[j].users[k].ID)) = 0
            /\ Len(job[j].sent) =
                  Cardinality({k \in DOMAIN job[j].users :
                                  Len(QualifyingOf(job[j].users[k], job[j].now)) >= 1})

\* a finished run over two users, the first with a product outside the window,
\* the second with a qualifying one: one message, to the second user
C3_Witness ==
    \E j \in Jobs :
        /\ job[j].pc = "done"
        /\ Len(job[j].users) = 2
        /\ Len(job[j].users[1].Products) = 1
        /\ Len(QualifyingOf(job[j].users[1], job[j].now)) = 0
        /\ Len(QualifyingOf(job[j].users[2], job[j].now)) = 1
        /\ job[j].users[1].Email # job[j].users[2].Email
        /\ Len(job[j].sent) = 1
        /\ job[j].sent[1].to = job[j].users[2].Email

\* C4: days_left is (expiry - now) / 24h with the fraction dropped, for every
\* loaded product and in every line sent: k for a difference in [24k, 24(k+1)),
\* -k for one in (-24(k+1), -24k]
C4_DaysLeftTruncates ==
    \A j \in Jobs :
        job[j].pc \in {"loop", "done"} =>
            /\ \A k \in DOMAIN job[j].users :
                  \A n \in DOMAIN job[j].users[k].Products :
                      LET p == job[j].users[k].Products[n]
                      IN  TruncatedQuotient(p.Expiry - job[j].now,
                                            DaysLeft(p.Expiry, job[j].now))
            /\ \A m \in DOMAIN job[j].sent :
                  \A l \in DOMAIN job[j].sent[m].lines :
                      \E k \in DOMAIN job[j].users :
                      \E n \in DOMAIN job[j].users[k].Products :
                          LET p == job[j].users[k].Products[n]
                          IN  /\ p.ID = job[j].sent[m].lines[l].pid
                              /\ TruncatedQuotient(p.Expiry - job[j].now,
                                                   job[j].sent[m].lines[l].daysLeft)

\* a finished run that listed a product expired an hour ago with 0 days left
\* and one expiring in 3 days 23 hours with 3 days left
C4_Witness ==
    \E j \in Jobs :
        /\ job[j].pc = "done"
        /\ \E k \in DOMAIN job[j].users :
           \E n, m \in DOMAIN job[j].users[k].Products :
              LET p == job[j].users[k].Products[n]
                  q == job[j].users[k].Products[m]
              IN  /\ p.Expiry - job[j].now = -1
                  /\ \E s \in DOMAIN job[j].sent : \E l \in DOMAIN job[j].sent[s].lines :
                        job[j].sent[s].lines[l] =
                            [pid |-> p.ID, name |-> p.Name, daysLeft |-> 0]
                  /\ q.Expiry - job[j].now = 3 * HoursPerDay + 23
                  /\ \E s \in DOMAIN job[j].sent : \E l \in DOMAIN job[j].sent[s].lines :
                        job[j].sent[s].lines[l] =
                            [pid |-> q.ID, name |-> q.Name, daysLeft |-> 3]

\* C5: a well-formed POST /users/:id/products whose :id resolves to no stored
\* user is answered 404 and leaves the products as they are; every stored
\* product's owner is a stored user
C5_NoProductWithoutUser ==
    /\ \A n \in DOMAIN products : \E k \in DOMAIN users : users[k].ID = products[n].UserID
    /\ \A id \in IdParams, dbOK \in BOOLEAN, name \in ProductNames, expiry \in Expiries :
          ~Resolves(id) =>
              LET r == AddProductToUser(TRUE, id, dbOK, name, expiry)
              IN  /\ r.resp.status = StatusNotFound
                  /\ r.products = products

\* the last request was a POST /users/:id/products answered 404 while a user and
\* a product are stored
C5_Witness ==
    /\ resp.route = "addProductToUser"
    /\ resp.status = StatusNotFound
    /\ users # <<>>
    /\ products # <<>>

\* C6: after a failed load the run has logged the failure and has ended without
\* entering the loop and without a send
C6_FailedLoadAbortsAndLogs ==
    \A j \in Jobs :
        (job[j].pc # "idle" /\ job[j].loadErr) =>
            /\ \E n \in DOMAIN job[j].log : job[j].log[n].kind = "loadError"
            /\ job[j].pc = "done"
            /\ job[j].i = 0
            /\ job[j].sent = <<>>

\* C7: every loaded user the loop has passed who has a qualifying product was
\* sent exactly one message, whatever the outcomes of the sends; each send has
\* one outcome in the log; a run ends only after the last loaded user
C7_SendFailureIsolated ==
    \A j \in Jobs :
        job[j].pc \in {"loop", "done"} =>
            /\ \A k \in DOMAIN job[j].users :
                  (k < job[j].i /\ Len(QualifyingOf(job[j].users[k], job[j].now)) >= 1) =>
                      Len(MsgsFor(job[j], job[j].users[k].ID)) = 1
            /\ Len(Outcomes(job[j])) = Len(job[j].sent)
            /\ \A n \in DOMAIN job[j].sent :
                  Outcomes(job[j])[n].email = job[j].sent[n].to
            /\ job[j].pc = "done" => job[j].i = Len(job[j].users) + 1

\* a finished run whose first send failed and whose second send, to another
\* user, was made and succeeded
C7_Witness ==
    \E j \in Jobs :
        /\ job[j].pc = "done"
        /\ Len(job[j].sent) = 2
        /\ job[j].sent[1].forUser # job[j].sent[2].forUser
        /\ Outcomes(job[j])[1].kind = "sendError"
        /\ Outcomes(job[j])[2].kind = "sent"

\* C8: GET /users/:id/products answers 200 with an empty collection for a
\* stored user without products, and 404 for an :id that is no stored user
C8_ListProductsNotFound ==
    \A id \in IdParams :
        LET r == ListUserProducts(id, TRUE)
        IN  /\ (Resolves(id) /\ \A n \in DOMAIN products : products[n].UserID # ParamID[id]) =>
                  (r.status = StatusOK /\ r.body = <<>>)
            /\ ~Resolves(id) => r.status = StatusNotFound

\* C9: a product that an earlier run listed is listed by every later run whose
\* load succeeded, in exactly one message, addressed to its owner
C9_NoDeduplication ==
    \A j \in Jobs :
        (job[j].pc = "done" /\ ~job[j].loadErr) =>
            \A pid \in job[j].owed :
                /\ TimesListed(job[j], pid) = 1
                /\ \A n \in DOMAIN job[j].sent :
                      (\E l \in DOMAIN job[j].sent[n].lines :
                            job[j].sent[n].lines[l].pid = pid) =>
                          /\ job[j].sent[n].forUser = products[pid].UserID
                          /\ job[j].sent[n].to = users[products[pid].UserID].Email

\* a finished run, a day after an earlier one, that lists again a product the
\* earlier run listed, now expired by more than a day
C9_Witness ==
    \E j \in Jobs :
        /\ job[j].pc = "done"
        /\ ~job[j].loadErr
        /\ \E pid \in job[j].owed :
              /\ TimesListed(job[j], pid) = 1
              /\ DaysLeft(products[pid].Expiry, job[j].now) < 0

\* C10: a run's messages are made from the rows stored when it loaded: no
\* message is for a later user or lists a later product, and a successful load
\* holds every user and product stored at that moment
C10_DecidesFromSnapshot ==
    \A j \in Jobs :
        job[j].pc # "idle" =>
            /\ \A n \in DOMAIN job[j].sent :
                  /\ job[j].sent[n].forUser \in 1..job[j].nUsers
                  /\ \A l \in DOMAIN job[j].sent[n].lines :
                        job[j].sent[n].lines[l].pid \in 1..job[j].nProducts
            /\ ~job[j].loadErr =>
                  job[j].users = Preload(SubSeq(users, 1, job[j].nUsers),
                                         SubSeq(products, 1, job[j].nProducts))

\* a finished run that sent a message to a user for whom a qualifying product
\* was created after the load; the message does not list it
C10_Witness ==
    \E j \in Jobs :
        /\ job[j].pc = "done"
        /\ \E n \in DOMAIN products :
              /\ n > job[j].nProducts
              /\ DaysLeft(products[n].Expiry, job[j].now) <= ExpiryWindow
              /\ Len(MsgsFor(job[j], products[n].UserID)) = 1
              /\ TimesListed(job[j], n) = 0

====
